---- MODULE Spec2Model ----
(***************************************************************************)
(* A model of pyexchange/dydx.py: the DydxApi adapter, the DydxOrder and   *)
(* DydxTrade translations, and the arithmetic they perform.                *)
(*                                                                         *)
(* Numbers.  The adapter computes with Python floats (IEEE-754 binary64),  *)
(* decimal.Decimal and pymaker's Wad (an integer count of 10^-18 units).   *)
(* TLC's integers are 32 bits wide, so every such quantity is carried as a *)
(* natural number written in limbs of four decimal digits, least           *)
(* significant limb first, without leading zero limbs (zero is the empty   *)
(* sequence):  <<5678, 1234>>  is 12345678.                                *)
(* A decimal is a record [n, sc] standing for n * 10^-sc, a float is a     *)
(* record [m, e] standing for m * 2^e with 2^52 <= m < 2^53 (or m = 0).    *)
(* Signs are carried beside the magnitudes where the code has them.        *)
(***************************************************************************)
EXTENDS Integers, Sequences, FiniteSets, TLC

(***************************************************************************)
(* Natural numbers of any size                                             *)
(***************************************************************************)

RECURSIVE Trim(_)
Trim(a) ==
    IF a = <<>> THEN <<>>
    ELSE IF a[Len(a)] = 0 THEN Trim(SubSeq(a, 1, Len(a) - 1))
    ELSE a

RECURSIVE CmpFrom(_, _, _)
CmpFrom(a, b, i) ==
    IF i = 0 THEN 0
    ELSE IF a[i] < b[i] THEN -1
    ELSE IF a[i] > b[i] THEN 1
    ELSE CmpFrom(a, b, i - 1)

\* -1, 0 or 1 as a < b, a = b, a > b.
Cmp(a, b) ==
    IF Len(a) < Len(b) THEN -1
    ELSE IF Len(a) > Len(b) THEN 1
    ELSE CmpFrom(a, b, Len(a))

RECURSIVE AddRec(_, _, _)
AddRec(a, b, c) ==
    IF a = <<>> /\ b = <<>> THEN (IF c = 0 THEN <<>> ELSE <<c>>)
    ELSE LET s == (IF a = <<>> THEN 0 ELSE Head(a))
                  + (IF b = <<>> THEN 0 ELSE Head(b)) + c
         IN  <<s % 10000>> \o AddRec(IF a = <<>> THEN a ELSE Tail(a),
                                     IF b = <<>> THEN b ELSE Tail(b),
                                     s \div 10000)

Add(a, b) == AddRec(a, b, 0)

RECURSIVE SubRec(_, _, _)
SubRec(a, b, c) ==
    IF a = <<>> THEN <<>>
    ELSE LET s == Head(a) - (IF b = <<>> THEN 0 ELSE Head(b)) - c
         IN  <<s % 10000>> \o SubRec(Tail(a),
                                     IF b = <<>> THEN b ELSE Tail(b),
                                     IF s < 0 THEN 1 ELSE 0)

\* a - b, for a >= b.
Sub(a, b) == Trim(SubRec(a, b, 0))

RECURSIVE MulSmallRec(_, _, _)
MulSmallRec(a, d, c) ==
    IF a = <<>> THEN (IF c = 0 THEN <<>> ELSE <<c>>)
    ELSE LET s == Head(a) * d + c
         IN  <<s % 10000>> \o MulSmallRec(Tail(a), d, s \div 10000)

\* a * d, for 0 <= d <= 10000.
MulSmall(a, d) == IF d = 0 THEN <<>> ELSE MulSmallRec(a, d, 0)

\* a * 10000^k.
ShlLimbs(a, k) == IF a = <<>> THEN <<>> ELSE [i \in 1..k |-> 0] \o a

RECURSIVE MulRec(_, _)
MulRec(a, b) ==
    IF b = <<>> THEN <<>>
    ELSE Add(MulSmall(a, Head(b)), ShlLimbs(MulRec(a, Tail(b)), 1))

\* a * b, adding one shifted row per limb of the shorter factor.
Mul(a, b) ==
    IF a = <<>> \/ b = <<>> THEN <<>>
    ELSE IF Len(a) < Len(b) THEN MulRec(b, a) ELSE MulRec(a, b)

\* <<quotient limbs, remainder>> of the limbs i..1 of a divided by the small
\* number d, with the remainder r of the higher limbs carried in.
RECURSIVE DivSmallRec(_, _, _, _)
DivSmallRec(a, d, i, r) ==
    IF i = 0 THEN <<<<>>, r>>
    ELSE LET cur  == r * 10000 + a[i]
             rest == DivSmallRec(a, d, i - 1, cur % d)
         IN  <<rest[1] \o <<cur \div d>>, rest[2]>>

\* floor(a / d), for 1 <= d <= 10000.
DivSmall(a, d) == Trim(DivSmallRec(a, d, Len(a), 0)[1])

\* a * 10^k.
Shl10(a, k) == ShlLimbs(MulSmall(a, 10 ^ (k % 4)), k \div 4)

\* floor(a / 10^k).
Shr10(a, k) ==
    IF k \div 4 >= Len(a) THEN <<>>
    ELSE DivSmall(SubSeq(a, (k \div 4) + 1, Len(a)), 10 ^ (k % 4))

\* a mod 10^k.
Low10(a, k) == Sub(a, Shl10(Shr10(a, k), k))

RECURSIVE Nat2Big(_)
Nat2Big(n) == IF n = 0 THEN <<>> ELSE <<n % 10000>> \o Nat2Big(n \div 10000)

One == <<1>>

RECURSIVE Pow2(_)
Pow2(k) == IF k < 13 THEN Nat2Big(2 ^ k) ELSE MulSmall(Pow2(k - 13), 8192)

RECURSIVE Pow5(_)
Pow5(k) == IF k < 5 THEN Nat2Big(5 ^ k) ELSE MulSmall(Pow5(k - 5), 3125)

Pow10(k) == Shl10(One, k)

\* The number of decimal digits of a (0 for zero).
NumDigits(a) ==
    IF a = <<>> THEN 0
    ELSE LET t == a[Len(a)]
         IN  4 * (Len(a) - 1)
             + (IF t >= 1000 THEN 4 ELSE IF t >= 100 THEN 3 ELSE IF t >= 10 THEN 2 ELSE 1)

RECURSIVE BitLenFrom(_, _, _)
BitLenFrom(a, j, p) ==
    IF Cmp(a, p) < 0 THEN j ELSE BitLenFrom(a, j + 1, MulSmall(p, 2))

\* The number of binary digits of a (0 for zero); the search starts below it,
\* since 10000^(L-1) >= 2^(13(L-1)).
BitLen(a) ==
    IF a = <<>> THEN 0
    ELSE BitLenFrom(a, 13 * (Len(a) - 1) + 1, Pow2(13 * (Len(a) - 1) + 1))

IsEven(a) == a = <<>> \/ a[1] % 2 = 0

\* floor(a / 10^k) rounded to the nearest integer, ties to even.
RoundShr10(a, k) ==
    IF k <= 0 THEN Shl10(a, 0 - k)
    ELSE LET q    == Shr10(a, k)
             r2   == MulSmall(Low10(a, k), 2)
             half == Cmp(r2, Pow10(k))
         IN  IF half > 0 \/ (half = 0 /\ ~IsEven(q)) THEN Add(q, One) ELSE q

\* floor(a / 2^k) rounded to the nearest integer, ties to even:
\* a / 2^k = a * 5^k / 10^k.
RoundShr2(a, k) == RoundShr10(Mul(a, Pow5(k)), k)

(***************************************************************************)
(* Decimals [n, sc] = n * 10^-sc  (decimal.Decimal, and the decimal        *)
(* strings of the wire format)                                             *)
(***************************************************************************)

Dec(n, sc) == [n |-> n, sc |-> sc]

\* -1, 0 or 1 as a < b, a = b, a > b, for decimals of any scales.
DecCmp(a, b) ==
    LET sc == IF a.sc > b.sc THEN a.sc ELSE b.sc
    IN  Cmp(Shl10(a.n, sc - a.sc), Shl10(b.n, sc - b.sc))

DecEq(a, b) == DecCmp(a, b) = 0

\* a * 10^k, exactly.
DecScale(a, k) == Dec(a.n, a.sc - k)

\* The same value with a scale of at least 0 (an integer has scale 0).
DecNonNegScale(a) == IF a.sc >= 0 THEN a ELSE Dec(Shl10(a.n, 0 - a.sc), 0)

(***************************************************************************)
(* Python floats: IEEE-754 binary64, round to nearest, ties to even.       *)
(* Every value the adapter meets is far from the subnormal and overflow    *)
(* ranges, which are left out.                                             *)
(***************************************************************************)

FloatZero == [m |-> <<>>, e |-> 0]

\* The float nearest to the integer m * 2^e.
FloatRound(m, e) ==
    IF m = <<>> THEN FloatZero
    ELSE LET b == BitLen(m)
         IN  IF b <= 53 THEN [m |-> Mul(m, Pow2(53 - b)), e |-> e - (53 - b)]
             ELSE LET q == RoundShr2(m, b - 53)
                  IN  IF q = Pow2(53) THEN [m |-> Pow2(52), e |-> e + (b - 53) + 1]
                      ELSE [m |-> q, e |-> e + (b - 53)]

\* n * 2^k / 10^s as <<numerator, decimal shift>>: for k < 0, 2^k = 5^-k / 10^-k.
BinScaled(n, s, k) ==
    IF k >= 0 THEN <<Mul(n, Pow2(k)), s>> ELSE <<Mul(n, Pow5(0 - k)), s - k>>

\* The float nearest to n / 10^s (s >= 0, n > 0), given a binary exponent k
\* with 2^52 <= n * 2^k / 10^s < 2^53.
FloatAtExp(n, s, k) ==
    LET ns == BinScaled(n, s, k)
        q  == RoundShr10(ns[1], ns[2])
    IN  IF q = Pow2(53) THEN [m |-> Pow2(52), e |-> 1 - k] ELSE [m |-> q, e |-> 0 - k]

\* float(<decimal string>), and int / int: the float nearest to the decimal d.
\* The binary exponent is bracketed by the bit lengths of n and 10^s.
DecToFloat(d) ==
    LET dd == DecNonNegScale(d)
        n  == dd.n
        s  == dd.sc
        k  == 52 - (BitLen(n) - BitLen(Pow10(s)))
        ns == BinScaled(n, s, k)
    IN  IF n = <<>> THEN FloatZero
        ELSE IF Cmp(ns[1], Shl10(Pow2(52), ns[2])) >= 0 THEN FloatAtExp(n, s, k)
        ELSE FloatAtExp(n, s, k + 1)

\* x * y on floats: the exact product, rounded once.
FloatMul(x, y) == FloatRound(Mul(x.m, y.m), x.e + y.e)

\* decimal.Decimal(x): the exact value of the float.
FloatToDec(x) ==
    IF x.e >= 0 THEN Dec(Mul(x.m, Pow2(x.e)), 0)
    ELSE Dec(Mul(x.m, Pow5(0 - x.e)), 0 - x.e)

\* int(x) for x >= 0: truncation.
FloatToInt(x) ==
    LET d == FloatToDec(x) IN Shr10(d.n, d.sc)

\* repr(x), str(x): the shortest decimal that float() reads back as x, the
\* nearest to x among those of that length.  ex is the exact value of x, k the
\* number of significant digits tried.
RECURSIVE ReprFrom(_, _, _)
ReprFrom(x, ex, k) ==
    LET drop  == NumDigits(ex.n) - k
        lo    == Shr10(ex.n, drop)
        near  == RoundShr10(ex.n, drop)
        other == IF near = lo THEN Add(lo, One) ELSE lo
    IN  IF drop <= 0 THEN ex
        ELSE IF DecToFloat(Dec(near, ex.sc - drop)) = x THEN Dec(near, ex.sc - drop)
        ELSE IF DecToFloat(Dec(other, ex.sc - drop)) = x THEN Dec(other, ex.sc - drop)
        ELSE ReprFrom(x, ex, k + 1)

FloatRepr(x) == IF x.m = <<>> THEN Dec(<<>>, 0) ELSE ReprFrom(x, FloatToDec(x), 1)

\* Decimal(a) * Decimal(b) under the default context: the exact product rounded
\* to 28 significant digits, ties to even.
DecMul28(a, b) ==
    LET n    == Mul(a.n, b.n)
        drop == NumDigits(n) - 28
    IN  IF drop <= 0 THEN Dec(n, a.sc + b.sc)
        ELSE Dec(RoundShr10(n, drop), a.sc + b.sc - drop)

\* int(d) for a decimal d >= 0: truncation.
DecToInt(d) == IF d.sc >= 0 THEN Shr10(d.n, d.sc) ELSE Shl10(d.n, 0 - d.sc)

\* round(d, places) on a Decimal: quantize to 10^-places, ties to even.
DecRound(d, places) ==
    IF d.sc <= places THEN Dec(Shl10(d.n, places - d.sc), places)
    ELSE Dec(RoundShr10(d.n, d.sc - places), places)

(***************************************************************************)
(* pymaker.Wad: an integer number v of 10^-18 units, with a sign.          *)
(***************************************************************************)

Wad(neg, v) == [neg |-> neg /\ v # <<>>, v |-> v]

\* Wad.from_number(number) for number >= 0 given as the decimal str(number):
\* Decimal(str(number)) * 10^18 (28 significant digits), truncated to an integer.
WadValue(d) == DecToInt(DecMul28(d, Dec(One, -18)))

\* The value of a Wad as a decimal.
WadDec(w) == Dec(w.v, 18)

\* float(wad): value / 10**18, one correctly rounded division.
WadToFloat(w) == DecToFloat(WadDec(w))

(***************************************************************************)
(* Python values handed to the adapter's methods: a type tag and a value.  *)
(* A float carries its binary64 value.                                     *)
(***************************************************************************)

PyStr(s)   == [t |-> "str", v |-> s]
PyInt(i)   == [t |-> "int", v |-> i]
PyBool(b)  == [t |-> "bool", v |-> b]
PyFloat(f) == [t |-> "float", v |-> f]
PyNone     == [t |-> "NoneType", v |-> "None"]

\* isinstance(x, cls); bool is a subclass of int.
IsInstance(x, cls) == x.t = cls \/ (cls = "int" /\ x.t = "bool")

FloatOne == DecToFloat(Dec(One, 0))

\* x == 1 in Python: 1, True and 1.0 are equal to 1.
PyEqualsOne(x) ==
    \/ x.t = "int" /\ x.v = 1
    \/ x.t = "bool" /\ x.v = TRUE
    \/ x.t = "float" /\ x.v = FloatOne

(***************************************************************************)
(* dydx.constants and dydx.util, as the adapter uses them                  *)
(***************************************************************************)

MARKET_ETH  == 0
MARKET_SAI  == 1
MARKET_USDC == 2
MARKET_DAI  == 3

\* dydx.util.token_to_wei(amount, market): int(Decimal(amount) * Decimal(10**decimals)),
\* 6 decimals for USDC and 18 for the other three markets.
token_to_wei(amount, market_id) ==
    LET decimals == IF market_id = MARKET_USDC THEN 6 ELSE 18
    IN  DecToInt(DecMul28(FloatToDec(amount), Dec(One, 0 - decimals)))

\* eth_utils.from_wei(number, unit): number / 10^18 ("ether") or / 10^6 ("mwei"), exactly.
from_wei(number, unit) == Dec(number, IF unit = "mwei" THEN 6 ELSE 18)

(***************************************************************************)
(* The arithmetic of DydxOrder.from_message and DydxTrade.from_message     *)
(***************************************************************************)

\* 10**k as Python computes it: an int for k >= 0, which float * int converts
\* exactly; the float nearest to 10^k for k < 0.
TenToThe(k) == IF k >= 0 THEN DecToFloat(Dec(Pow10(k), 0)) ELSE DecToFloat(Dec(One, 0 - k))

\* Wad.from_number(float(wire_price) * 10**decimal_exponent)
ScaledPrice(wire_price, decimal_exponent) ==
    Wad(FALSE, WadValue(FloatRepr(FloatMul(DecToFloat(wire_price), TenToThe(decimal_exponent)))))

\* Wad.from_number(from_wei(abs(int(float(wire_amount))), "ether"))
WireAmount(wire_amount) ==
    Wad(FALSE, WadValue(from_wei(FloatToInt(DecToFloat(wire_amount)), "ether")))

\* int(dateutil.parser.parse(createdAt).timestamp()), createdAt a UTC time.
ParseTimestamp(createdAt) ==
    createdAt.day * 86400 + createdAt.hour * 3600 + createdAt.minute * 60 + createdAt.second

\* int(market_id) of a key of the balances mapping.
MarketIdOf(key) ==
    CASE key = "0" -> 0 [] key = "1" -> 1 [] key = "2" -> 2 [] key = "3" -> 3
      [] key = "4" -> 4

(***************************************************************************)
(* The exchange behind the client: what its calls can answer                *)
(***************************************************************************)

\* Bounds of the model: the longest list of orders, of fills and of balance
\* entries a response holds.
MaxOrders   == 3
MaxFills    == 3
MaxBalances == 2

\* A decimal string of the wire format, "0.01" being D(1, 2).
D(n, sc) == Dec(Nat2Big(n), sc)

Market(quote_decimals, tick, base_id) ==
    [quoteCurrency   |-> [decimals |-> quote_decimals],
     baseCurrency    |-> [soloMarketId |-> base_id],
     minimumTickSize |-> tick]

\* client.get_markets()["markets"], before and after the exchange changes its
\* markets: a new tick size, a quote currency redenominated, a market delisted.
MarketsAtStart ==
    [p \in {"WETH-DAI", "WETH-USDC", "DAI-USDC"} |->
        CASE p = "WETH-DAI"  -> Market(18, D(1, 2), MARKET_ETH)
          [] p = "WETH-USDC" -> Market(6, D(1, 14), MARKET_ETH)
          [] p = "DAI-USDC"  -> Market(6, D(1, 16), MARKET_DAI)]

MarketsChanged ==
    [p \in {"WETH-DAI", "WETH-USDC"} |->
        CASE p = "WETH-DAI"  -> Market(6, D(1, 1), MARKET_ETH)
          [] p = "WETH-USDC" -> Market(18, D(1, 13), MARKET_ETH)]

MarketVersions == {MarketsAtStart, MarketsChanged}

Time(s) == [day |-> 18262, hour |-> 12, minute |-> 30, second |-> s]

\* The orders the account may have: prices "230.55", "0.00000000000023",
\* "0.0000000000002305" and "100.0".
OrderPool ==
    {[id |-> "o1", status |-> "OPEN", side |-> "SELL", price |-> D(23055, 2),
      baseAmount |-> D(1, -18), createdAt |-> Time(1)],
     [id |-> "o2", status |-> "FILLED", side |-> "BUY", price |-> D(23, 14),
      baseAmount |-> D(5, -17), createdAt |-> Time(2)],
     [id |-> "o3", status |-> "OPEN", side |-> "BUY", price |-> D(23, 14),
      baseAmount |-> Dec(Add(Pow2(53), One), 0), createdAt |-> Time(3)],
     [id |-> "o4", status |-> "CANCELED", side |-> "SELL", price |-> D(1000, 1),
      baseAmount |-> D(2, -18), createdAt |-> Time(4)],
     [id |-> "o5", status |-> "OPEN", side |-> "SELL", price |-> D(2305, 16),
      baseAmount |-> D(3, -18), createdAt |-> Time(5)]}

\* The fills of the market.
FillPool ==
    {[uuid |-> "f1", status |-> "CONFIRMED", market |-> "WETH-DAI", side |-> "SELL",
      price |-> D(23055, 2), amount |-> D(1, -18), createdAt |-> Time(1)],
     [uuid |-> "f2", status |-> "PENDING", market |-> "WETH-DAI", side |-> "BUY",
      price |-> D(23, 14), amount |-> D(5, -17), createdAt |-> Time(2)],
     [uuid |-> "f3", status |-> "CONFIRMED", market |-> "WETH-USDC", side |-> "BUY",
      price |-> D(23, 14), amount |-> D(7, -17), createdAt |-> Time(3)],
     [uuid |-> "f4", status |-> "REVERTED", market |-> "WETH-USDC", side |-> "SELL",
      price |-> D(1000, 1), amount |-> D(2, -18), createdAt |-> Time(4)]}

\* The sequences without repetition of at most n elements of S.
RECURSIVE ListsOf(_, _)
ListsOf(S, n) ==
    IF n = 0 THEN {<<>>}
    ELSE LET shorter == ListsOf(S, n - 1)
         IN  shorter \cup {Append(l, e) : l \in {k \in shorter : Len(k) = n - 1},
                                          e \in S}

Range(seq) == {seq[i] : i \in 1..Len(seq)}

DistinctListsOf(S, n) == {l \in ListsOf(S, n) : Cardinality(Range(l)) = Len(l)}

OrderLists == DistinctListsOf(OrderPool, MaxOrders)

FillLists == DistinctListsOf(FillPool, MaxFills)

\* Wire balances: "-1000000", "1000000000000000000", "9007199254740993"
\* (2^53 + 1) and "0".
WeiPool ==
    {[neg |-> TRUE, n |-> Nat2Big(1000000), sc |-> 0],
     [neg |-> FALSE, n |-> Pow10(18), sc |-> 0],
     [neg |-> FALSE, n |-> Add(Pow2(53), One), sc |-> 0],
     [neg |-> FALSE, n |-> <<>>, sc |-> 0]}

\* The keys of a balances mapping: the four known market ids and an unknown one.
BalanceKeys == {"0", "1", "2", "3", "4"}

BalanceItems == {<<k, [marketId |-> MarketIdOf(k), wei |-> w]>> : k \in BalanceKeys, w \in WeiPool}

\* A balances mapping in its iteration order: no key twice.
BalanceMappings ==
    {l \in ListsOf(BalanceItems, MaxBalances) :
        Cardinality({l[i][1] : i \in 1..Len(l)}) = Len(l)}

\* What client.cancel_order(hash) answers: the cancelled order, or a body
\* that names no order.
CancelResponses ==
    {[order |-> [id |-> i]] : i \in {"o1", "o3"}} \cup {[errors |-> "not found"]}

\* The arguments the caller passes.
PairArgs   == {PyStr("WETH-DAI"), PyStr("WETH-USDC"), PyStr("DAI-USDC"), PyStr("BTC-USD"), PyInt(7)}
PageArgs   == {PyInt(1), PyInt(2), PyInt(0), PyBool(TRUE), PyFloat(FloatOne), PyStr("1"), PyNone}
SideArgs   == {PyBool(TRUE), PyBool(FALSE), PyStr("SELL")}
\* Prices 230.55, 0.125 and 100.0; amounts 0.1 and 2.0.
PriceFloats  == {DecToFloat(D(23055, 2)), DecToFloat(D(125, 3)), DecToFloat(D(100, 0))}
AmountFloats == {DecToFloat(D(1, 1)), DecToFloat(D(2, 0))}
PriceArgs  == {PyFloat(f) : f \in PriceFloats} \cup {PyInt(230)}
AmountArgs == {PyFloat(f) : f \in AmountFloats} \cup {PyInt(2), PyStr("0.1")}
TokenArgs  == {PyStr("USDC"), PyStr("ETH"), PyStr("DAI"), PyInt(2), PyNone}
IdArgs     == {PyStr("o1"), PyStr("o3"), PyInt(1)}
NodeArgs   == {PyStr("https://node"), PyNone}
KeyArgs    == {PyStr("0xkey"), PyInt(0)}

\* ScaledPrice and WireAmount for the wire prices, the quote decimals and the
\* wire amounts of the model, computed once.
WirePrices == {o.price : o \in OrderPool} \cup {f.price : f \in FillPool}

QuoteExponents ==
    UNION {{18 - m[p].quoteCurrency.decimals : p \in DOMAIN m} : m \in MarketVersions}

ScaledPrices == [p \in WirePrices |-> [x \in QuoteExponents |-> ScaledPrice(p, x)]]

WireAmounts ==
    [a \in {o.baseAmount : o \in OrderPool} \cup {f.amount : f \in FillPool} |-> WireAmount(a)]

(***************************************************************************)
(* DydxOrder.from_message and DydxTrade.from_message, on the messages     *)
(* of the model                                                            *)
(***************************************************************************)

DydxOrder_from_message(item, pair, market_info) ==
    LET decimal_exponent == 18 - market_info.quoteCurrency.decimals
    IN  [order_id  |-> item.id,
         timestamp |-> ParseTimestamp(item.createdAt),
         pair      |-> pair,
         is_sell   |-> item.side = "SELL",
         price     |-> ScaledPrices[item.price][decimal_exponent],
         amount    |-> WireAmounts[item.baseAmount]]

DydxTrade_from_message(trade, pair, market_info) ==
    LET decimal_exponent == 18 - market_info.quoteCurrency.decimals
    IN  [trade_id  |-> trade.uuid,
         timestamp |-> ParseTimestamp(trade.createdAt),
         pair      |-> trade.market,
         is_sell   |-> trade.side = "SELL",
         price     |-> ScaledPrices[trade.price][decimal_exponent],
         amount    |-> WireAmounts[trade.amount]]

(***************************************************************************)
(* DydxApi._convert_balance_to_wad and _balances_to_list                   *)
(***************************************************************************)

\* A wire balance is a signed decimal string: [neg, n, sc].
\* balance["wad"] as _convert_balance_to_wad computes it from balance["wei"].
BalanceWad(wei, decimals) ==
    LET wei_balance       == DecToFloat(Dec(wei.n, wei.sc))
        is_negative       == wei.neg /\ wei_balance # FloatZero
        converted_balance == IF decimals = 6
                             THEN from_wei(FloatToInt(wei_balance), "mwei")
                             ELSE from_wei(FloatToInt(wei_balance), "ether")
    IN  Wad(is_negative, WadValue(converted_balance))

\* BalanceWad for the wire balances of the model, computed once.
BalanceWads == [w \in WeiPool |-> [d \in {6, 18} |-> BalanceWad(w, d)]]

convert_balance_to_wad(balance, decimals) ==
    [k \in DOMAIN balance \cup {"wad"} |->
        IF k = "wad" THEN BalanceWads[balance.wei][decimals] ELSE balance[k]]

CurrencyLabel_Unknown(market_id) ==
    IF market_id = MARKET_ETH THEN "ETH"
    ELSE IF market_id = MARKET_SAI THEN "SAI"
    ELSE IF market_id = MARKET_USDC THEN "USDC"
    ELSE IF market_id = MARKET_DAI THEN "DAI"
    ELSE "UNKNOWN"

\* The currency label _balances_to_list gives a market id, "" for none.
CurrencyLabel(market_id) ==
    IF market_id = MARKET_ETH THEN "ETH"
    ELSE IF market_id = MARKET_SAI THEN "SAI"
    ELSE IF market_id = MARKET_USDC THEN "USDC"
    ELSE IF market_id = MARKET_DAI THEN "DAI"
    ELSE ""

BalanceDecimals(market_id) == IF market_id = MARKET_USDC THEN 6 ELSE 18

\* One turn of the loop of _balances_to_list, for the item <<market_id, balance>>.
LabelledBalance(item) ==
    LET market_id == MarketIdOf(item[1])
        balance   == item[2]
        labelled  == IF CurrencyLabel(market_id) = "" THEN balance
                     ELSE [k \in DOMAIN balance \cup {"currency"} |->
                              IF k = "currency" THEN CurrencyLabel(market_id) ELSE balance[k]]
    IN  convert_balance_to_wad(labelled, BalanceDecimals(market_id))

\* balances is the mapping in its iteration order, a sequence of <<key, entry>>.
balances_to_list(balances) == [i \in 1..Len(balances) |-> LabelledBalance(balances[i])]

(***************************************************************************)
(* The adapter and the exchange                                            *)
(*                                                                         *)
(*   constructed     whether DydxApi.__init__ has returned                 *)
(*   client          self.client: the credentials the Client was made with *)
(*   market_info     self.market_info                                      *)
(*   remote_markets  what client.get_markets() answers at present          *)
(*   last            the last call of a public method: its name, its       *)
(*                   arguments and how it ended (returned a value, or      *)
(*                   raised an exception)                                  *)
(*   calls           the requests that call made of the client, in order,  *)
(*                   each with the client's answer                         *)
(*                                                                         *)
(* The adapter is used by one thread: a call runs to its end, the caller   *)
(* takes what it returned or raised, and only then makes the next call.    *)
(***************************************************************************)
VARIABLES constructed, client, market_info, remote_markets, last, calls

vars == <<constructed, client, market_info, remote_markets, last, calls>>

adapter == <<constructed, client, market_info>>

NoClient == [node |-> "", private_key |-> ""]

NoMarkets == [p \in {} |-> 0]

NoCall == [op |-> "none", args |-> <<>>, outcome |-> "none", value |-> "none"]

Init ==
    /\ constructed = FALSE
    /\ client = NoClient
    /\ market_info = NoMarkets
    /\ remote_markets = MarketsAtStart
    /\ last = NoCall
    /\ calls = <<>>

\* No call is in progress and the result of the last one has been taken.
Idle == last = NoCall

\* The caller takes the result of the last call: the adapter keeps nothing of it.
Discard ==
    /\ ~Idle
    /\ last' = NoCall
    /\ calls' = <<>>
    /\ UNCHANGED <<constructed, client, market_info, remote_markets>>

\* A request of the client that it answered, and one on which it raised.
Answered(request, response) == [request |-> request, ok |-> TRUE, response |-> response]
Failed(request) == [request |-> request, ok |-> FALSE, response |-> "raised"]

\* How a call of a public method ends, with the requests it made.
Returns(op, args, value, requests) ==
    /\ last' = [op |-> op, args |-> args, outcome |-> "return", value |-> value]
    /\ calls' = requests

Raises(op, args, exception, requests) ==
    /\ last' = [op |-> op, args |-> args, outcome |-> "raise", value |-> exception]
    /\ calls' = requests

\* The exchange changes its markets while the adapter is in use.
MarketsChange ==
    /\ constructed
    /\ \E m \in MarketVersions \ {remote_markets} : remote_markets' = m
    /\ UNCHANGED <<constructed, client, market_info, last, calls>>

\* DydxApi.__init__(node, private_key)
DydxApi_init ==
    /\ Idle
    /\ ~constructed
    /\ \E node \in NodeArgs, private_key \in KeyArgs, ok \in BOOLEAN :
        LET args    == [node |-> node, private_key |-> private_key]
            request == [fn |-> "get_markets"]
        IN  IF ~IsInstance(node, "str") \/ ~IsInstance(private_key, "str")
            THEN /\ Raises("__init__", args, "AssertionError", <<>>)
                 /\ UNCHANGED <<constructed, client, market_info>>
            ELSE IF ~ok
            THEN /\ Raises("__init__", args, "ClientError", <<Failed(request)>>)
                 /\ UNCHANGED <<constructed, client, market_info>>
            ELSE /\ Returns("__init__", args, "None", <<Answered(request, remote_markets)>>)
                 /\ constructed' = TRUE
                 /\ client' = [node |-> node.v, private_key |-> private_key.v]
                 /\ market_info' = remote_markets
    /\ UNCHANGED remote_markets

MarketInfoAfterFetch_Refreshed(cached, fetched) == fetched

\* self.market_info after get_markets() has fetched the markets anew.
MarketInfoAfterFetch(cached, fetched) == cached

\* DydxApi.get_markets()
get_markets ==
    /\ Idle
    /\ constructed
    /\ \E ok \in BOOLEAN :
        LET request == [fn |-> "get_markets"]
        IN  IF ~ok THEN Raises("get_markets", <<>>, "ClientError", <<Failed(request)>>)
            ELSE Returns("get_markets", <<>>, remote_markets,
                         <<Answered(request, remote_markets)>>)
    /\ market_info' = MarketInfoAfterFetch(market_info, remote_markets)
    /\ UNCHANGED <<constructed, client, remote_markets>>

\* DydxApi.get_pair(pair)
get_pair ==
    /\ Idle
    /\ constructed
    /\ \E pair \in PairArgs, ok \in BOOLEAN :
        LET args    == [pair |-> pair]
            request == [fn |-> "get_markets"]
        IN  IF ~IsInstance(pair, "str") THEN Raises("get_pair", args, "AssertionError", <<>>)
            ELSE IF ~ok THEN Raises("get_pair", args, "ClientError", <<Failed(request)>>)
            ELSE IF pair.v \notin DOMAIN remote_markets
            THEN Raises("get_pair", args, "KeyError", <<Answered(request, remote_markets)>>)
            ELSE Returns("get_pair", args, remote_markets[pair.v],
                         <<Answered(request, remote_markets)>>)
    /\ market_info' = MarketInfoAfterFetch(market_info, remote_markets)
    /\ UNCHANGED <<constructed, client, remote_markets>>

\* DydxApi.get_balances()
get_balances ==
    /\ Idle
    /\ constructed
    /\ \E balances \in BalanceMappings, ok \in BOOLEAN :
        LET request == [fn |-> "get_my_balances"]
        IN  IF ~ok THEN Raises("get_balances", <<>>, "ClientError", <<Failed(request)>>)
            ELSE Returns("get_balances", <<>>, balances_to_list(balances),
                         <<Answered(request, [balances |-> balances])>>)
    /\ UNCHANGED <<constructed, client, market_info, remote_markets>>

IsOpen_NotCancelled(order) == order.status # "CANCELED"

\* The filter of get_orders.
IsOpen(order) == order.status = "OPEN"

\* DydxApi.get_orders(pair)
get_orders ==
    /\ Idle
    /\ constructed
    /\ \E pair \in PairArgs, orders \in OrderLists, ok \in BOOLEAN :
        LET args    == [pair |-> pair]
            request == [fn |-> "get_my_orders", market |-> <<pair.v>>,
                        limit |-> "None", startingBefore |-> "None"]
            open_orders == SelectSeq(orders, IsOpen)
            normalized  == [i \in 1..Len(open_orders) |->
                              DydxOrder_from_message(open_orders[i], pair.v, market_info[pair.v])]
        IN  IF ~IsInstance(pair, "str") THEN Raises("get_orders", args, "AssertionError", <<>>)
            ELSE IF ~ok THEN Raises("get_orders", args, "ClientError", <<Failed(request)>>)
            ELSE IF pair.v \notin DOMAIN market_info
            THEN Raises("get_orders", args, "KeyError",
                        <<Answered(request, [orders |-> orders])>>)
            ELSE Returns("get_orders", args, normalized,
                         <<Answered(request, [orders |-> orders])>>)
    /\ UNCHANGED <<constructed, client, market_info, remote_markets>>

IsConfirmed_NotReverted(fill) == fill.status # "REVERTED"

\* The filter of get_all_trades.
IsConfirmed(fill) == fill.status = "CONFIRMED"

PageNumberAccepted_AnyInt(page_number) == IsInstance(page_number, "int")

\* The check get_all_trades makes of its page_number.
PageNumberAccepted(page_number) == PyEqualsOne(page_number)

\* DydxApi.get_trades(pair, page_number)
get_trades ==
    /\ Idle
    /\ constructed
    /\ \E pair \in PairArgs, page_number \in PageArgs, fills \in FillLists, ok \in BOOLEAN :
        LET args    == [pair |-> pair, page_number |-> page_number]
            request == [fn |-> "get_my_fills", market |-> <<pair.v>>]
            normalized == [i \in 1..Len(fills) |->
                             DydxTrade_from_message(fills[i], pair.v, market_info[pair.v])]
        IN  IF ~IsInstance(pair, "str") \/ ~IsInstance(page_number, "int")
            THEN Raises("get_trades", args, "AssertionError", <<>>)
            ELSE IF ~ok THEN Raises("get_trades", args, "ClientError", <<Failed(request)>>)
            ELSE IF pair.v \notin DOMAIN market_info
            THEN Raises("get_trades", args, "KeyError", <<Answered(request, [fills |-> fills])>>)
            ELSE Returns("get_trades", args, normalized,
                         <<Answered(request, [fills |-> fills])>>)
    /\ UNCHANGED <<constructed, client, market_info, remote_markets>>

\* DydxApi.get_all_trades(pair, page_number)
get_all_trades ==
    /\ Idle
    /\ constructed
    /\ \E pair \in PairArgs, page_number \in PageArgs, fills \in FillLists, ok \in BOOLEAN :
        LET args    == [pair |-> pair, page_number |-> page_number]
            request == [fn |-> "get_fills", market |-> <<pair.v>>, limit |-> 100]
            trades     == SelectSeq(fills, IsConfirmed)
            normalized == [i \in 1..Len(trades) |->
                             DydxTrade_from_message(trades[i], pair.v, market_info[pair.v])]
        IN  IF ~IsInstance(pair, "str") \/ ~PageNumberAccepted(page_number)
            THEN Raises("get_all_trades", args, "AssertionError", <<>>)
            ELSE IF ~ok THEN Raises("get_all_trades", args, "ClientError", <<Failed(request)>>)
            ELSE IF pair.v \notin DOMAIN market_info
            THEN Raises("get_all_trades", args, "KeyError",
                        <<Answered(request, [fills |-> fills])>>)
            ELSE Returns("get_all_trades", args, normalized,
                         <<Answered(request, [fills |-> fills])>>)
    /\ UNCHANGED <<constructed, client, market_info, remote_markets>>

DepositMarket_AlwaysEth(token) == MARKET_ETH

\* The market deposit_funds deposits to.
DepositMarket(token) == IF token = PyStr("USDC") THEN MARKET_USDC ELSE MARKET_ETH

\* DydxApi.deposit_funds(token, amount)
deposit_funds ==
    /\ Idle
    /\ constructed
    /\ \E token \in TokenArgs, amount \in AmountArgs, tx_hash \in {"0xaa", "0xbb"},
          status \in {0, 1}, deposited \in BOOLEAN, mined \in BOOLEAN :
        LET args      == [token |-> token, amount |-> amount]
            market_id == DepositMarket(token)
            deposit   == [fn |-> "eth.deposit", market |-> market_id,
                          wei |-> token_to_wei(amount.v, market_id)]
            get       == [fn |-> "eth.get_receipt", tx_hash |-> tx_hash]
            receipt   == [transactionHash |-> tx_hash, status |-> status]
        IN  IF ~IsInstance(amount, "float")
            THEN Raises("deposit_funds", args, "AssertionError", <<>>)
            ELSE IF ~deposited
            THEN Raises("deposit_funds", args, "ClientError", <<Failed(deposit)>>)
            ELSE IF ~mined
            THEN Raises("deposit_funds", args, "ClientError",
                        <<Answered(deposit, tx_hash), Failed(get)>>)
            ELSE Returns("deposit_funds", args, receipt,
                         <<Answered(deposit, tx_hash), Answered(get, receipt)>>)
    /\ UNCHANGED <<constructed, client, market_info, remote_markets>>

\* tick_size of place_order: abs(Decimal(minimumTickSize).as_tuple().exponent);
\* the exponent of a decimal string with sc digits after the point is -sc.
TickPlaces(minimumTickSize) ==
    IF minimumTickSize.sc >= 0 THEN minimumTickSize.sc ELSE 0 - minimumTickSize.sc

\* The price place_order submits:
\* round(Decimal(price * (10**decimal_exponent)), tick_size)
SubmittedPrice(price, info) ==
    LET decimal_exponent == (18 - info.quoteCurrency.decimals) * (-1)
    IN  DecRound(FloatToDec(FloatMul(price, TenToThe(decimal_exponent))),
                 TickPlaces(info.minimumTickSize))

\* What the caller passes place_order: arguments of its own, or the pair and
\* the price of an order that get_orders has just returned (source names the
\* wire order the price was read from, for the record).
PlaceOrderInputs ==
    IF Idle
    THEN {[pair |-> pair, is_sell |-> is_sell, price |-> price, amount |-> amount,
           source |-> "caller"] :
             pair \in PairArgs, is_sell \in SideArgs, price \in PriceArgs, amount \in AmountArgs}
    ELSE IF last.op = "get_orders" /\ last.outcome = "return"
    THEN {[pair |-> last.args.pair, is_sell |-> PyBool(last.value[i].is_sell),
           price |-> PyFloat(WadToFloat(last.value[i].price)),
           amount |-> PyFloat(DecToFloat(D(1, 1))),
           source |-> last.value[i].order_id] : i \in 1..Len(last.value)}
    ELSE {}

\* DydxApi.place_order(pair, is_sell, price, amount)
place_order ==
    /\ constructed
    /\ \E args \in PlaceOrderInputs, order_id \in {"n1", "n2"}, ok \in BOOLEAN :
        LET pair    == args.pair
            info    == market_info[pair.v]
            request == [fn |-> "place_order", market |-> pair.v,
                        side |-> IF args.is_sell.v THEN "SELL" ELSE "BUY",
                        price |-> SubmittedPrice(args.price.v, info),
                        amount |-> token_to_wei(args.amount.v, info.baseCurrency.soloMarketId),
                        fillOrKill |-> FALSE, postOnly |-> FALSE]
        IN  IF \/ ~IsInstance(pair, "str") \/ ~IsInstance(args.is_sell, "bool")
               \/ ~IsInstance(args.price, "float") \/ ~IsInstance(args.amount, "float")
            THEN Raises("place_order", args, "AssertionError", <<>>)
            ELSE IF pair.v \notin DOMAIN market_info
            THEN Raises("place_order", args, "KeyError", <<>>)
            ELSE IF ~ok THEN Raises("place_order", args, "ClientError", <<Failed(request)>>)
            ELSE Returns("place_order", args, order_id,
                         <<Answered(request, [order |-> [id |-> order_id]])>>)
    /\ UNCHANGED <<constructed, client, market_info, remote_markets>>

\* DydxApi.cancel_order(order_id)
cancel_order ==
    /\ Idle
    /\ constructed
    /\ \E order_id \in IdArgs, canceled_order \in CancelResponses, ok \in BOOLEAN :
        LET args    == [order_id |-> order_id]
            request == [fn |-> "cancel_order", hash |-> order_id.v]
        IN  IF ~IsInstance(order_id, "str")
            THEN Raises("cancel_order", args, "AssertionError", <<>>)
            ELSE IF ~ok THEN Raises("cancel_order", args, "ClientError", <<Failed(request)>>)
            ELSE IF "order" \notin DOMAIN canceled_order
            THEN Raises("cancel_order", args, "KeyError", <<Answered(request, canceled_order)>>)
            ELSE Returns("cancel_order", args, canceled_order.order.id = order_id.v,
                         <<Answered(request, canceled_order)>>)
    /\ UNCHANGED <<constructed, client, market_info, remote_markets>>

Next ==
    \/ MarketsChange
    \/ DydxApi_init
    \/ Discard
    \/ get_markets
    \/ get_pair
    \/ get_balances
    \/ get_orders
    \/ get_trades
    \/ get_all_trades
    \/ deposit_funds
    \/ place_order
    \/ cancel_order

Spec == Init /\ [][Next]_vars


(***************************************************************************)
(* The claims                                                              *)
(***************************************************************************)

Returned(op) == last.op = op /\ last.outcome = "return"

\* How many messages of seq before position i have the status given.
KeptBefore(seq, status, i) == Cardinality({j \in 1..(i - 1) : seq[j].status = status})

\* C1: get_orders(pair), for a pair of the cached metadata and any list of
\* orders the client answers, returns one Order per input order whose status
\* is "OPEN", in the order of the input (the k-th Order comes from the k-th
\* OPEN input order, under the pair asked for), and no Order for an input
\* order of another status.
C1_OpenOrdersOnly ==
    (last.op = "get_orders" /\ calls # <<>> /\ calls[1].ok
        /\ last.args.pair.v \in DOMAIN market_info)
    => LET input     == calls[1].response.orders
       IN  /\ last.outcome = "return"
           /\ Len(last.value) = Cardinality({i \in 1..Len(input) : input[i].status = "OPEN"})
           /\ \A i \in 1..Len(input) :
                IF input[i].status = "OPEN"
                THEN LET k == KeptBefore(input, "OPEN", i) + 1
                     IN  /\ last.value[k].order_id = input[i].id
                         /\ last.value[k].pair = last.args.pair.v
                         /\ last.value[k].is_sell = (input[i].side = "SELL")
                ELSE \A k \in 1..Len(last.value) : last.value[k].order_id # input[i].id

\* get_orders has returned the two OPEN orders of a list of three, one of
\* another status between them.
C1_Witness ==
    /\ Returned("get_orders")
    /\ Len(calls[1].response.orders) = 3
    /\ calls[1].response.orders[1].status = "OPEN"
    /\ calls[1].response.orders[2].status # "OPEN"
    /\ calls[1].response.orders[3].status = "OPEN"
    /\ Len(last.value) = 2

\* C2: get_all_trades(pair, 1) returns one Trade per fill whose status is
\* "CONFIRMED", in the order of the input, and none for a fill of another
\* status; get_trades filters nothing and returns one Trade per fill.
C2_ConfirmedFillsOnly ==
    /\ (last.op = "get_all_trades" /\ calls # <<>> /\ calls[1].ok
           /\ last.args.pair.v \in DOMAIN market_info)
       => LET input == calls[1].response.fills
          IN  /\ last.outcome = "return"
              /\ Len(last.value)
                   = Cardinality({i \in 1..Len(input) : input[i].status = "CONFIRMED"})
              /\ \A i \in 1..Len(input) :
                   IF input[i].status = "CONFIRMED"
                   THEN last.value[KeptBefore(input, "CONFIRMED", i) + 1].trade_id
                            = input[i].uuid
                   ELSE \A k \in 1..Len(last.value) : last.value[k].trade_id # input[i].uuid
    /\ (last.op = "get_trades" /\ calls # <<>> /\ calls[1].ok
           /\ last.args.pair.v \in DOMAIN market_info)
       => LET input == calls[1].response.fills
          IN  /\ last.outcome = "return"
              /\ Len(last.value) = Len(input)
              /\ \A i \in 1..Len(input) : last.value[i].trade_id = input[i].uuid

\* get_all_trades has returned the two CONFIRMED fills of a list of three.
C2_Witness ==
    /\ Returned("get_all_trades")
    /\ Len(calls[1].response.fills) = 3
    /\ calls[1].response.fills[2].status # "CONFIRMED"
    /\ Len(last.value) = 2

\* C3: get_all_trades with a page_number other than 1 fails with an error,
\* makes no request of the client and returns no trades.
C3_OnlyPageOne ==
    (last.op = "get_all_trades" /\ ~PyEqualsOne(last.args.page_number))
    => /\ last.outcome = "raise"
       /\ last.value = "AssertionError"
       /\ calls = <<>>

\* get_all_trades was called for a known pair with page_number 2.
C3_Witness ==
    /\ last.op = "get_all_trades"
    /\ last.args.pair = PyStr("WETH-DAI")
    /\ last.args.page_number = PyInt(2)
    /\ last.outcome = "raise"

\* C4 (as claimed): for a string order_id and any answer of the client's
\* cancel call, cancel_order returns true only when the answer's order id
\* equals order_id, and for an answer that carries no matching id it returns
\* false and raises nothing.
C4_CancelNeverRaises ==
    (last.op = "cancel_order" /\ IsInstance(last.args.order_id, "str")
        /\ calls # <<>> /\ calls[1].ok)
    => LET answer  == calls[1].response
           matches == /\ "order" \in DOMAIN answer
                      /\ answer.order.id = last.args.order_id.v
       IN  /\ last.outcome = "return"
           /\ last.value = matches

\* The types the methods declare for their arguments: the arguments of the
\* last call that are not of the declared type.
DeclaredTypes ==
    [__init__       |-> [node |-> "str", private_key |-> "str"],
     get_pair       |-> [pair |-> "str"],
     get_orders     |-> [pair |-> "str"],
     get_trades     |-> [pair |-> "str", page_number |-> "int"],
     get_all_trades |-> [pair |-> "str", page_number |-> "int"],
     place_order    |-> [pair |-> "str", is_sell |-> "bool", price |-> "float",
                         amount |-> "float"],
     cancel_order   |-> [order_id |-> "str"],
     deposit_funds  |-> [token |-> "str", amount |-> "float"]]

IllTypedArguments ==
    IF last.op \in DOMAIN DeclaredTypes
    THEN {a \in DOMAIN DeclaredTypes[last.op] :
            ~IsInstance(last.args[a], DeclaredTypes[last.op][a])}
    ELSE {}

\* C5 (as claimed): a call of a public method with an argument of an invalid
\* type makes no request of the client.
C5_IllTypedCallsNothing == IllTypedArguments # {} => calls = <<>>

\* C8: get_balances raises nothing on any balances mapping, unknown market
\* ids included, and returns one entry per input entry, with the entry's
\* original fields; the entry of a known id carries that id's currency label,
\* the entry of an unknown id carries none.
C8_UnknownMarketsPassThrough ==
    (last.op = "get_balances" /\ calls # <<>> /\ calls[1].ok)
    => LET input == calls[1].response.balances
       IN  /\ last.outcome = "return"
           /\ Len(last.value) = Len(input)
           /\ \A i \in 1..Len(input) :
                LET key   == input[i][1]
                    entry == last.value[i]
                IN  /\ \A f \in DOMAIN input[i][2] :
                          f \in DOMAIN entry /\ entry[f] = input[i][2][f]
                    /\ key = "0" => "currency" \in DOMAIN entry /\ entry.currency = "ETH"
                    /\ key = "1" => "currency" \in DOMAIN entry /\ entry.currency = "SAI"
                    /\ key = "2" => "currency" \in DOMAIN entry /\ entry.currency = "USDC"
                    /\ key = "3" => "currency" \in DOMAIN entry /\ entry.currency = "DAI"
                    /\ key \notin {"0", "1", "2", "3"} => "currency" \notin DOMAIN entry

\* get_balances has returned an entry of the unknown market id 4 beside one
\* of a known id.
C8_Witness ==
    /\ Returned("get_balances")
    /\ Len(last.value) = 2
    /\ calls[1].response.balances[1][1] = "4"
    /\ calls[1].response.balances[2][1] = "2"

\* C7 (as claimed): the amount derived for a balance entry has the sign of
\* the entry's wire value and the magnitude |wei| / 10^6 for the USDC market,
\* |wei| / 10^18 for every other.
C7_BalanceExact ==
    Returned("get_balances")
    => \A i \in 1..Len(last.value) :
          LET key      == calls[1].response.balances[i][1]
              wei      == last.value[i].wei
              decimals == IF key = "2" THEN 6 ELSE 18
          IN  /\ last.value[i].wad.neg = (wei.neg /\ wei.n # <<>>)
              /\ DecEq(WadDec(last.value[i].wad), Dec(wei.n, wei.sc + decimals))

C9_StepFrame ==
    /\ constructed => adapter' = adapter
    /\ (~constructed /\ constructed') =>
          /\ calls'[1].request.fn = "get_markets"
          /\ market_info' = calls'[1].response
    /\ (last'.op \in {"get_orders", "get_trades", "get_all_trades", "place_order"}
          /\ last' # last) =>
          /\ last'.outcome = "return" => last'.args.pair.v \in DOMAIN market_info
          /\ (last'.outcome = "raise" /\ last'.value = "KeyError") =>
                last'.args.pair.v \notin DOMAIN market_info
          /\ (last'.op = "get_orders" /\ last'.outcome = "return") =>
                \A k \in 1..Len(last'.value) :
                   \E o \in Range(calls'[1].response.orders) :
                      /\ o.id = last'.value[k].order_id
                      /\ last'.value[k].price
                           = ScaledPrice(o.price,
                                18 - market_info[last'.args.pair.v].quoteCurrency.decimals)

\* C9: the cached market metadata is set at construction from the client's
\* markets response; after construction no call, successful or failing, and
\* no change of the exchange's markets changes the cached metadata or the
\* rest of the adapter's state; and get_orders, get_trades, get_all_trades
\* and place_order work with the cached metadata: they succeed for the pairs
\* of the cache, and fail with a lookup error for the others, whatever the
\* exchange lists at the time.
C9_CachedMetadataFrozen == [][C9_StepFrame]_vars

\* The exchange has changed its markets since construction, and get_orders
\* has returned orders of a pair the exchange has delisted since.
C9_Witness ==
    /\ constructed
    /\ market_info = MarketsAtStart
    /\ remote_markets = MarketsChanged
    /\ Returned("get_orders")
    /\ last.args.pair = PyStr("DAI-USDC")
    /\ Len(last.value) > 0


\* The wire message a normalized Order or Trade of the last call came from.
WireOrder(order_id) == CHOOSE o \in OrderPool : o.id = order_id
WireFill(trade_id)  == CHOOSE f \in FillPool : f.uuid = trade_id

CachedDecimals == market_info[last.args.pair.v].quoteCurrency.decimals

\* p is a whole number of ticks, for a tick size that is a power of ten.
IsTickMultiple(p, tick) ==
    /\ tick.n = One
    /\ p.sc > tick.sc => Low10(p.n, p.sc - tick.sc) = <<>>

\* C6, first part: the normalized price of an Order or Trade is the wire
\* price times 10^(18-d), d the quote decimals.
C6_ScalingExact ==
    /\ Returned("get_orders") =>
          \A k \in 1..Len(last.value) :
             DecEq(WadDec(last.value[k].price),
                   DecScale(WireOrder(last.value[k].order_id).price, 18 - CachedDecimals))
    /\ (Returned("get_trades") \/ Returned("get_all_trades")) =>
          \A k \in 1..Len(last.value) :
             DecEq(WadDec(last.value[k].price),
                   DecScale(WireFill(last.value[k].trade_id).price, 18 - CachedDecimals))

\* C6, second part: the price place_order submits for the caller's price q is
\* q * 10^-(18-d) rounded to the decimal places of minimumTickSize.
C6_SubmittedRounded ==
    (last.op = "place_order" /\ calls # <<>>) =>
        LET info == market_info[last.args.pair.v]
        IN  DecEq(calls[1].request.price,
                  DecRound(DecScale(FloatToDec(last.args.price.v),
                                    0 - (18 - info.quoteCurrency.decimals)),
                           info.minimumTickSize.sc))

\* C6, third part: the price of an Order that get_orders returned, passed to
\* place_order for the same pair, is submitted as the order's wire price when
\* that is a whole number of ticks.
C6_RoundTrip ==
    (last.op = "place_order" /\ calls # <<>> /\ last.args.source # "caller") =>
        LET wire == WireOrder(last.args.source).price
            tick == market_info[last.args.pair.v].minimumTickSize
        IN  IsTickMultiple(wire, tick) => DecEq(calls[1].request.price, wire)

\* C6 (as claimed): the three parts together.
C6_PriceScalingInverts == C6_ScalingExact /\ C6_SubmittedRounded /\ C6_RoundTrip

====
